---- MODULE Spec2Model ----
(***************************************************************************)
(* Circular pre/post-buffer recorder of App.tsx: the continuous buffering  *)
(* loop (recordSegment and its callbacks), the sliding window              *)
(* (segmentQueue), the triggered capture (handleCircularCapture), the      *)
(* stop/reset handlers and the React effects that tie them together.       *)
(*                                                                         *)
(* React state is modelled by its committed value; a closure's copy of a   *)
(* state variable is kept where an asynchronous continuation still reads   *)
(* it after the state has moved on (sess[s].cq, sess[s].cbm, effQueue,     *)
(* the queues held in stopTasks).  Refs are read and written directly.     *)
(* Every handler is a function from a state record to a state record, so   *)
(* that one action can run a whole synchronous block of the source, calls  *)
(* included, up to its next await.                                         *)
(*                                                                         *)
(* The native merge (VideoMergerModule.mergeVideos, VideoMerger.merge and  *)
(* copyTrack) is modelled sample by sample.  The contents of the segment   *)
(* files are chosen when the extractor reads them; the muxer is a sink of  *)
(* which the model keeps, per output track, the number of samples written, *)
(* the last and the largest presentation time.                             *)
(***************************************************************************)
EXTENDS Integers, Sequences, FiniteSets, TLC

\* ---------------------------------------------------------------- bounds
MaxFiles      == 4   \* segment files the recorder may produce in one run
MaxSess       == 2   \* executions of handleCircularCapture tracked at once
MaxRecs       == 2   \* recordings in flight at once (2 shows an overlap)
MaxPending    == 2   \* recordSegment invocations suspended in their await
MaxTimers     == 2   \* pending 3 s stop timers / 1 s retry timers
MaxStops      == 2   \* stopContinuousBuffering invocations suspended
MaxEvents     == 2   \* disturbances in one run: switch toggles, duration
                     \* changes, resets, faults of the platform (startRecording
                     \* throws, error callbacks, RNFS.unlink rejections) and
                     \* triggers accepted while another one is still running
MaxSegs       == 2   \* inputPaths.length of one merge
MaxSamples    == 2   \* samples of one track of one segment file
MaxTime       == 2   \* largest sample time inside a segment file
MaxCalls      == 3   \* calls of TelemetryLogger.start and stop in one run
MaxMetrics    == 2   \* TelemetryMetrics events the native timer emits
MaxStamp      == 2   \* distinct timestamps a log file path is built from

\* ------------------------------------------------------ program constants
SegmentSeconds   == 3   \* nominal length of a buffering segment
DefaultPreBuffer == 5   \* useState(5)
Durations        == {3, 5, 9}   \* picker values 3 and 5, custom input 9

Sessions == 1..MaxSess
Files    == 1..(MaxFiles + 1)

\* ---------------------------------------------------------------- helpers
Range(q) == {q[i] : i \in DOMAIN q}

\* Math.ceil(a / b) for positive integers
Ceil(a, b) == (a + b - 1) \div b

Min(a, b) == IF a <= b THEN a ELSE b

\* the last n elements of q
LastN(q, n) == SubSeq(q, Len(q) - n + 1, Len(q))

RemoveAt(q, i) == SubSeq(q, 1, i - 1) \o SubSeq(q, i + 1, Len(q))

\* while (newQueue.length > maxSegments) newQueue.shift()
RECURSIVE ShiftWhileOver(_, _)
ShiftWhileOver(newQueue, maxSegments) ==
  IF Len(newQueue) > maxSegments
    THEN ShiftWhileOver(Tail(newQueue), maxSegments)
    ELSE newQueue

VARIABLES
  enableTelemetry,       \* ENABLE_TELEMETRY (= __DEV__), fixed per build
  bufferMode,            \* useState
  isBuffering,           \* useState
  isCapturing,           \* useState
  isMerging,             \* useState
  segmentQueue,          \* useState: the Window, oldest first
  preBufferDuration,     \* useState
  telemetryActive,       \* useState
  segmentRecordingRef,   \* useRef
  isBufferingRef,        \* useRef
  isCapturingRef,        \* useRef
  preBufferDurationRef,  \* useRef
  effQueue,              \* segmentQueue as closed over by the bufferMode effect's cleanup
  recs,                  \* recordings in flight, in the order they were begun
  rsPending,             \* recordSegment invocations suspended before startRecording
  segTimers,             \* pending 3 s stop timers
  retryTimers,           \* pending 1 s retry timers
  stopTasks,             \* suspended stopContinuousBuffering calls (their closure queues)
  sess,                  \* executions of handleCircularCapture
  exists,                \* segment files on disk
  nextFile,              \* next file name the recorder hands out
  unlinkFailed,          \* files whose unlink was rejected
  events,                \* disturbances so far
  pushLog,               \* segments pushed since the Window was last cleared
  pushFixed,             \* the pre-buffer target did not change since then
  triggerBusy,           \* the last call of handleCircularCapture returned at its guard
  callTick,              \* flips at every call of handleCircularCapture
  unlinkedAgain,         \* some unlink named a file that had been deleted
  afterReset             \* resetApp has run and the switch was not touched since

appVars == << enableTelemetry, bufferMode, isBuffering, isCapturing, isMerging,
           segmentQueue, preBufferDuration, telemetryActive,
           segmentRecordingRef, isBufferingRef, isCapturingRef,
           preBufferDurationRef, effQueue, recs, rsPending, segTimers,
           retryTimers, stopTasks, sess, exists, nextFile,
           unlinkFailed, events, pushLog, pushFixed, triggerBusy,
           callTick, unlinkedAgain, afterReset >>

\* the merge engine
VARIABLES
  inputLength,               \* inputPaths.length
  outputFile,                \* the file at outputPath: "none", "partial", "finalized"
  promise,                   \* the promise of mergeVideos
  mpc,                       \* where VideoMerger.merge stands
  fileIndex,                 \* for (int fileIndex = 0; ...)
  videoTrackIndex,
  audioTrackIndex,
  muxerStarted,
  videoPresentationTimeUs,
  audioPresentationTimeUs,
  extractor,                 \* the track types of the file the extractor has open
  copy,                      \* the locals of the running copyTrack
  written,                   \* per output track: samples written, last and largest time
  before,                    \* written[t].max when the current file was opened
  lastWrite                  \* the last call of muxer.writeSampleData

mergeVars == << inputLength, outputFile, promise, mpc, fileIndex,
                videoTrackIndex, audioTrackIndex, muxerStarted,
                videoPresentationTimeUs, audioPresentationTimeUs, extractor,
                copy, written, before, lastWrite >>

\* the TelemetryLogger singleton and the native TelemetryModule
VARIABLES
  sessionId,                 \* this.sessionId, 0 for ''
  isMonitoring,              \* this.isMonitoring
  metricsBuffer,             \* this.metricsBuffer: the events pushed, in order
  eventSubscription,         \* this.eventSubscription, 0 for null
  logFilePath,               \* this.logFilePath, 0 for ''
  reportFilePath,            \* this.reportFilePath, 0 for ''
  latencyStartTime,          \* this.latencyStartTime
  latencyMetrics,            \* this.latencyMetrics: "null" or "set"
  nativeMonitoring,          \* isMonitoring of TelemetryModule.kt
  nativeStarts,              \* calls of TelemetryModule.startMonitoring so far
  listeners,                 \* subscriptions to 'TelemetryMetrics' not removed
  subsMade,                  \* subscriptions addListener has returned so far
  emitted,                   \* events the native timer has emitted so far
  calls,                     \* the calls of start and stop suspended at an await
  callsMade,                 \* calls of start and stop so far
  lastCall                   \* the method called last: "none", "start", "stop"

telVars == << sessionId, isMonitoring, metricsBuffer, eventSubscription,
              logFilePath, reportFilePath, latencyStartTime, latencyMetrics,
              nativeMonitoring, nativeStarts, listeners, subsMade, emitted,
              calls, callsMade, lastCall >>

vars == << appVars, mergeVars, telVars >>

\* the current state as one record, and the assignment of a record to the
\* next state
Cur ==
  [ enableTelemetry |-> enableTelemetry, bufferMode |-> bufferMode,
    isBuffering |-> isBuffering, isCapturing |-> isCapturing,
    isMerging |-> isMerging, segmentQueue |-> segmentQueue,
    preBufferDuration |-> preBufferDuration,
    telemetryActive |-> telemetryActive,
    segmentRecordingRef |-> segmentRecordingRef,
    isBufferingRef |-> isBufferingRef, isCapturingRef |-> isCapturingRef,
    preBufferDurationRef |-> preBufferDurationRef, effQueue |-> effQueue,
    recs |-> recs, rsPending |-> rsPending, segTimers |-> segTimers,
    retryTimers |-> retryTimers, stopTasks |-> stopTasks, sess |-> sess,
    exists |-> exists, nextFile |-> nextFile,
    unlinkFailed |-> unlinkFailed, events |-> events, pushLog |-> pushLog,
    pushFixed |-> pushFixed, triggerBusy |-> triggerBusy,
    callTick |-> callTick, unlinkedAgain |-> unlinkedAgain,
    afterReset |-> afterReset ]

Becomes(S) ==
  /\ enableTelemetry' = S.enableTelemetry
  /\ bufferMode' = S.bufferMode
  /\ isBuffering' = S.isBuffering
  /\ isCapturing' = S.isCapturing
  /\ isMerging' = S.isMerging
  /\ segmentQueue' = S.segmentQueue
  /\ preBufferDuration' = S.preBufferDuration
  /\ telemetryActive' = S.telemetryActive
  /\ segmentRecordingRef' = S.segmentRecordingRef
  /\ isBufferingRef' = S.isBufferingRef
  /\ isCapturingRef' = S.isCapturingRef
  /\ preBufferDurationRef' = S.preBufferDurationRef
  /\ effQueue' = S.effQueue
  /\ recs' = S.recs
  /\ rsPending' = S.rsPending
  /\ segTimers' = S.segTimers
  /\ retryTimers' = S.retryTimers
  /\ stopTasks' = S.stopTasks
  /\ sess' = S.sess
  /\ exists' = S.exists
  /\ nextFile' = S.nextFile
  /\ unlinkFailed' = S.unlinkFailed
  /\ events' = S.events
  /\ pushLog' = S.pushLog
  /\ pushFixed' = S.pushFixed
  /\ triggerBusy' = S.triggerBusy
  /\ callTick' = S.callTick
  /\ unlinkedAgain' = S.unlinkedAgain
  /\ afterReset' = S.afterReset

\* a state the bounds still let the model represent
WithinBounds(S) ==
  /\ Len(S.recs) <= MaxRecs
  /\ S.rsPending <= MaxPending
  /\ S.segTimers <= MaxTimers
  /\ S.retryTimers <= MaxTimers
  /\ Len(S.stopTasks) <= MaxStops
  /\ S.nextFile <= MaxFiles + 1
  /\ S.events <= MaxEvents

\* the files of one step whose deletion the file system may reject
UnlinkChoices == {F \in SUBSET exists : Cardinality(F) <= 1} \cup {{nextFile}}

\* --------------------------------------------------------- the recorder
\* camera.current.stopRecording(): asks the recorder to end what it records
stopRecording(S) ==
  [S EXCEPT !.recs = [i \in DOMAIN S.recs |-> [S.recs[i] EXCEPT !.stopping = TRUE]]]

\* camera.current.startRecording(callbacks) that did not throw; a buffering
\* segment gets its 3 s stop timer in the same turn (timer: that timer has
\* not fired yet)
startRecording(S, kind, sid) ==
  [S EXCEPT !.recs = Append(@, [kind |-> kind, sid |-> sid,
                                 stopping |-> FALSE, timer |-> kind = "seg"])]

\* RNFS.unlink(path).catch(() => {}) for every path in P; the files in F
\* stay because their deletion was rejected.  A path whose file is gone is
\* a file the recorder wrote and an earlier unlink deleted: that call
\* rejects and the rejection is swallowed.
unlink(S, P, F) ==
  LET stay == F \cap P \cap S.exists
  IN [S EXCEPT !.exists = (@ \ P) \cup stay,
               !.unlinkFailed = @ \cup stay,
               !.events = @ + Cardinality(stay),
               !.unlinkedAgain = @ \/ (P \ S.exists # {})]

\* ------------------------------------------------ continuous buffering
\* recordSegment up to its first await: the entry checks and the "extra
\* safety" stopRecording.  The closure's isCapturing is false in every
\* closure that creates recordSegment.
recordSegment(S) ==
  IF ~S.isBufferingRef THEN S
  ELSE IF S.segmentRecordingRef THEN S
  ELSE [stopRecording(S) EXCEPT !.rsPending = @ + 1]

\* recordSegment after its await: marks the segment as recording and
\* begins it; thr: startRecording throws
recordSegmentBegin(S, thr) ==
  LET S1 == [S EXCEPT !.rsPending = @ - 1, !.segmentRecordingRef = TRUE]
  IN IF thr
       THEN [S1 EXCEPT !.segmentRecordingRef = FALSE, !.events = @ + 1]
       ELSE [startRecording(S1, "seg", 0) EXCEPT !.segTimers = @ + 1]

\* the 3 s timer of a segment fires; i: the position in the recorder of the
\* segment it was armed for, 0 when that segment is over
segmentStopTimer(S, i) ==
  LET S1 == [S EXCEPT !.segTimers = @ - 1]
      S2 == IF i > 0 THEN [S1 EXCEPT !.recs[i].timer = FALSE] ELSE S1
  IN IF S2.segmentRecordingRef THEN stopRecording(S2) ELSE S2

\* a push that evicts the newest segments instead of the oldest
pushSegment_dropsNewest(prev, path, currentPreBuffer) ==
  LET newQueue == Append(prev, path)
      maxSegments == Ceil(currentPreBuffer, SegmentSeconds)
  IN SubSeq(newQueue, 1, Min(Len(newQueue), maxSegments))

\* the Window's push: append, then evict from the head down to maxSegments
pushSegment(prev, path, currentPreBuffer) ==
  LET newQueue == Append(prev, path)
      maxSegments == Ceil(currentPreBuffer, SegmentSeconds)
  IN ShiftWhileOver(newQueue, maxSegments)

\* an onRecordingFinished that pushes the segment whatever the capturing flag
onSegmentFinished_pushesDuringCapture(S, path, F) ==
  LET S1 == [S EXCEPT !.segmentRecordingRef = FALSE]
      kept == pushSegment(S1.segmentQueue, path, S1.preBufferDurationRef)
      removed == (Range(S1.segmentQueue) \cup {path}) \ Range(kept)
      S2 == [unlink(S1, removed, F) EXCEPT
               !.segmentQueue = kept,
               !.pushLog = Append(@, path)]
  IN IF S2.isBufferingRef THEN recordSegment(S2) ELSE S2

\* onRecordingFinished of a buffering segment; path: the finished file
onSegmentFinished(S, path, F) ==
  LET S1 == [S EXCEPT !.segmentRecordingRef = FALSE]
  IN IF ~S1.isCapturingRef
       THEN LET kept == pushSegment(S1.segmentQueue, path, S1.preBufferDurationRef)
                removed == (Range(S1.segmentQueue) \cup {path}) \ Range(kept)
                S2 == [unlink(S1, removed, F) EXCEPT
                         !.segmentQueue = kept,
                         !.pushLog = Append(@, path)]
            IN IF S2.isBufferingRef THEN recordSegment(S2) ELSE S2
       ELSE unlink(S1, {path}, F)

\* onRecordingError of a buffering segment
onSegmentError(S) ==
  IF S.isCapturingRef
    THEN [S EXCEPT !.segmentRecordingRef = FALSE]
    ELSE LET S1 == [S EXCEPT !.segmentRecordingRef = FALSE]
         IN IF S1.isBufferingRef /\ ~S1.isCapturingRef
              THEN [S1 EXCEPT !.retryTimers = @ + 1]
              ELSE S1

\* startContinuousBuffering: sets the flags and enters the loop
startContinuousBuffering(S) ==
  recordSegment([S EXCEPT !.isBuffering = TRUE, !.isBufferingRef = TRUE])

\* stopContinuousBuffering after its await (or at once when nothing was
\* recording); queue: the segmentQueue of the closure that called it
stopContinuousBufferingEnd(S, queue, F) ==
  LET S1 == [S EXCEPT !.segmentRecordingRef = FALSE]
  IN [unlink(S1, Range(queue), F) EXCEPT
        !.segmentQueue = <<>>, !.pushLog = <<>>, !.pushFixed = TRUE]

\* stopContinuousBuffering up to its await
stopContinuousBuffering(S, queue, F) ==
  LET S1 == [S EXCEPT !.isBuffering = FALSE, !.isBufferingRef = FALSE]
  IN IF S1.segmentRecordingRef
       THEN [stopRecording(S1) EXCEPT !.stopTasks = Append(@, queue)]
       ELSE stopContinuousBufferingEnd(S1, queue, F)

\* the effect on [bufferMode]: the cleanup of the previous run, then the
\* body with the values of the render that changed bufferMode
bufferModeEffect(S, F) ==
  LET S1 == stopContinuousBuffering(S, S.effQueue, F)
      S2 == IF S.bufferMode /\ ~S.isBuffering /\ ~S.isCapturing
              THEN startContinuousBuffering(S1)
            ELSE IF ~S.bufferMode /\ S.isBuffering
              THEN stopContinuousBuffering(S1, S.segmentQueue, F)
            ELSE S1
  IN [S2 EXCEPT !.effQueue = S.segmentQueue]

\* the effect on [preBufferDuration]
preBufferDurationEffect(S) ==
  [S EXCEPT !.preBufferDurationRef = S.preBufferDuration]

\* the Switch's onValueChange followed by the effect it triggers
setBufferMode(S, value, F) ==
  bufferModeEffect([S EXCEPT !.bufferMode = value, !.events = @ + 1,
                            !.afterReset = FALSE], F)

\* the pre-buffer Picker / custom input, followed by the effect
setPreBufferDuration(S, value) ==
  preBufferDurationEffect(
    [S EXCEPT !.preBufferDuration = value, !.events = @ + 1,
              !.pushFixed = (S.pushLog = <<>>)])

\* resetApp, followed by the effects of the render it causes
resetApp(S, F) ==
  LET S1 == IF S.isBuffering
              THEN stopContinuousBuffering(S, S.segmentQueue, F)
              ELSE S
      S2 == [S1 EXCEPT
               !.bufferMode = FALSE, !.isBuffering = FALSE,
               !.segmentQueue = <<>>, !.preBufferDuration = DefaultPreBuffer,
               !.isCapturing = FALSE, !.isMerging = FALSE,
               !.isBufferingRef = FALSE, !.isCapturingRef = FALSE,
               !.segmentRecordingRef = FALSE,
               !.preBufferDurationRef = DefaultPreBuffer,
               !.pushLog = <<>>, !.pushFixed = TRUE, !.events = @ + 1,
               !.afterReset = TRUE]
  IN IF S.bufferMode THEN bufferModeEffect(S2, F) ELSE S2

\* ------------------------------------------------------ triggered capture
IdleSession ==
  [ pc |-> "idle", cq |-> <<>>, cbm |-> FALSE, pre |-> <<>>, post |-> <<>>,
    merged |-> <<>>, outcome |-> "none", ptimer |-> FALSE, err |-> FALSE ]

\* camera.current.startRecording of the post-buffer did not throw and the
\* stop timer is armed
capturePostBegun(S, s) ==
  [startRecording(S, "post", s) EXCEPT !.sess[s].pc = "post", !.sess[s].ptimer = TRUE]

\* an end of session that cleans up only after a merge that succeeded
captureFinish_keepsOnError(S, s, F) ==
  LET allSegments == S.sess[s].pre \o S.sess[s].post
      S1 == IF S.sess[s].outcome = "saved"
              THEN unlink(S, Range(allSegments), F)
              ELSE S
      S2 == [S1 EXCEPT !.segmentQueue = <<>>, !.isCapturing = FALSE,
                       !.isCapturingRef = FALSE, !.isMerging = FALSE,
                       !.pushLog = <<>>, !.pushFixed = TRUE,
                       !.sess[s].pc = "done"]
  IN IF S.sess[s].cbm THEN startContinuousBuffering(S2) ELSE S2

\* an end of session that leaves the flags alone unless the video was saved
captureFinish_keepsFlagsOnError(S, s, F) ==
  LET allSegments == S.sess[s].pre \o S.sess[s].post
      S1 == unlink(S, Range(allSegments), F)
      S2 == IF S.sess[s].outcome = "saved"
              THEN [S1 EXCEPT !.segmentQueue = <<>>, !.isCapturing = FALSE,
                              !.isCapturingRef = FALSE, !.isMerging = FALSE,
                              !.pushLog = <<>>, !.pushFixed = TRUE,
                              !.sess[s].pc = "done"]
              ELSE [S1 EXCEPT !.sess[s].pc = "done"]
  IN IF S.sess[s].cbm /\ S.sess[s].outcome = "saved"
       THEN startContinuousBuffering(S2)
       ELSE S2

\* the cleanup, the state reset and the restart of buffering that follow
\* mergeAndSaveSegments
captureFinish(S, s, F) ==
  LET allSegments == S.sess[s].pre \o S.sess[s].post
      S1 == unlink(S, Range(allSegments), F)
      S2 == [S1 EXCEPT !.segmentQueue = <<>>, !.isCapturing = FALSE,
                       !.isCapturingRef = FALSE, !.isMerging = FALSE,
                       !.pushLog = <<>>, !.pushFixed = TRUE,
                       !.sess[s].pc = "done"]
  IN IF S.sess[s].cbm THEN startContinuousBuffering(S2) ELSE S2

\* mergeAndSaveSegments after VideoMerger.mergeVideos has settled; ok: the
\* native promise resolved.  A rejection is caught and only reported.
mergeAndSaveSegmentsEnd(S, s, ok) ==
  [S EXCEPT !.sess[s].outcome = IF ok THEN "saved" ELSE "mergeError",
            !.sess[s].err = @ \/ ~ok]

\* a merge call that lists the post-buffer before the pre-buffer
captureMerge_postFirst(S, s, postBufferSegments, F) ==
  LET allSegments == postBufferSegments \o S.sess[s].pre
      S1 == [S EXCEPT !.isMerging = TRUE, !.sess[s].post = postBufferSegments,
                      !.sess[s].ptimer = FALSE]
  IN IF Len(allSegments) = 0
       THEN captureFinish([S1 EXCEPT !.sess[s].outcome = "nothingToMerge"], s, F)
       ELSE [S1 EXCEPT !.sess[s].pc = "merging",
                       !.sess[s].merged = Append(@, allSegments)]

\* from the settled post-buffer promise to the call of the native merger
\* (or, with nothing to merge, to the end of the session)
captureMerge(S, s, postBufferSegments, F) ==
  LET allSegments == S.sess[s].pre \o postBufferSegments
      S1 == [S EXCEPT !.isMerging = TRUE, !.sess[s].post = postBufferSegments,
                      !.sess[s].ptimer = FALSE]
  IN IF Len(allSegments) = 0
       THEN captureFinish([S1 EXCEPT !.sess[s].outcome = "nothingToMerge"], s, F)
       ELSE [S1 EXCEPT !.sess[s].pc = "merging",
                       !.sess[s].merged = Append(@, allSegments)]

\* the snapshot of the queue and the start of the post-buffer recording;
\* thr: startRecording throws
captureSnapshot(S, s, thr, F) ==
  LET preBufferSegments == S.sess[s].cq
      S1 == [S EXCEPT !.sess[s].pre = preBufferSegments]
  IN IF thr
       THEN captureMerge([S1 EXCEPT !.events = @ + 1, !.sess[s].err = TRUE], s, <<>>, F)
       ELSE capturePostBegun(S1, s)

\* after the await of the early stop
captureAfterEarlyStop(S, s, thr, F) ==
  captureSnapshot([S EXCEPT !.segmentRecordingRef = FALSE], s, thr, F)

\* a trigger that takes the snapshot without waiting for the early stop
captureSetFlags_noWait(S, s, thr, F) ==
  LET S1 == [S EXCEPT !.isCapturing = TRUE, !.isCapturingRef = TRUE,
                      !.isBufferingRef = FALSE, !.isBuffering = FALSE]
  IN IF S1.segmentRecordingRef
       THEN captureSnapshot(stopRecording(S1), s, thr, F)
       ELSE captureSnapshot(S1, s, thr, F)

\* sets the capturing flags, stops the loop and, when a segment is being
\* recorded, requests its early stop
captureSetFlags(S, s, thr, F) ==
  LET S1 == [S EXCEPT !.isCapturing = TRUE, !.isCapturingRef = TRUE,
                      !.isBufferingRef = FALSE, !.isBuffering = FALSE]
  IN IF S1.segmentRecordingRef
       THEN [stopRecording(S1) EXCEPT !.sess[s].pc = "earlystop"]
       ELSE captureSnapshot(S1, s, thr, F)

\* after await TelemetryLogger.start(sessionId)
captureAfterTelemetry(S, s, thr, F) ==
  captureSetFlags([S EXCEPT !.telemetryActive = TRUE], s, thr, F)

\* a guard that lets a trigger through until the merge has begun
captureGuard_mergingOnly(S) == S.isMerging

\* the guard of handleCircularCapture (camera.current is set once mounted)
captureGuard(S) == S.isCapturing

\* handleCircularCapture from its call to its first await; s: a free slot
handleCircularCapture(S, s, thr, F) ==
  IF captureGuard(S)
    THEN [S EXCEPT !.triggerBusy = TRUE, !.callTick = ~@]
    ELSE LET S1 == [S EXCEPT !.triggerBusy = FALSE, !.callTick = ~@,
                          !.sess[s] = [IdleSession EXCEPT
                                         !.pc = "telemetry",
                                         !.cq = S.segmentQueue,
                                         !.cbm = S.bufferMode]]
         IN IF S.enableTelemetry /\ ~S.telemetryActive
              THEN S1
              ELSE captureSetFlags(S1, s, thr, F)

\* a Capture button that is disabled only while a capture runs
captureDisabled_whileCapturingOnly == isCapturing

\* the Capture button is rendered in buffer mode and disabled like this
captureDisabled ==
  isCapturing \/ Len(segmentQueue) * SegmentSeconds < preBufferDuration

FreeSlots == {s \in Sessions : sess[s].pc \in {"idle", "done"}}

\* the state in which a press of the Capture button calls
\* handleCircularCapture
AtTrigger ==
  IF ~captureGuard(Cur) /\ FreeSlots # Sessions
    THEN [Cur EXCEPT !.events = @ + 1]
    ELSE Cur

\* the state in which a call that the button would not have let through
\* starts
AtDirectCall == [Cur EXCEPT !.events = @ + 1]
FreeSlot == CHOOSE s \in FreeSlots : \A t \in FreeSlots : s <= t

\* ------------------------------------------------------ the merge engine
Tracks == {"video", "audio"}

\* the track types a segment file can hold (at least one of the two)
TrackSets == SUBSET Tracks \ {{}}

\* the samples a segment file can hold, by size and flag word: a large
\* sync sample (flag 1) or a small sample that depends on another
Samples == {[size |-> 2, flags |-> 1], [size |-> 1, flags |-> 0]}

\* no copyTrack is running
NoCopy ==
  [ mime |-> "none", offsetUs |-> 0, maxPresentationTimeUs |-> 0,
    sampleTime |-> 0, sampleSize |-> 0, sampleFlags |-> 0, n |-> 0 ]

\* muxer.writeSampleData has not been called
NoWrite ==
  [ track |-> "none", file |-> 0, sampleTime |-> 0, presentationTimeUs |-> 0,
    size |-> 0, flags |-> 0 ]

\* the muxer's track index and the running offset of a track type
trackIndex(t) == IF t = "video" THEN videoTrackIndex ELSE audioTrackIndex
offsetOf(t) ==
  IF t = "video" THEN videoPresentationTimeUs ELSE audioPresentationTimeUs

\* a sample time shifted by the largest time of the track so far instead of
\* by the offset of the file
presentationTimeUs_fromMax(c, sampleTime) ==
  sampleTime + c.maxPresentationTimeUs

\* bufferInfo.presentationTimeUs = extractor.getSampleTime() + offsetUs
presentationTimeUs(c, sampleTime) == sampleTime + c.offsetUs

\* if (presentationTimeUs > maxPresentationTimeUs) maxPresentationTimeUs = ...
maxPresentationTimeUs(c, pts) ==
  IF pts > c.maxPresentationTimeUs THEN pts ELSE c.maxPresentationTimeUs

\* a bufferInfo that marks every sample as a sync sample
bufferInfo_allSync(c, sampleSize, sampleTime, sampleFlags) ==
  [ size |-> sampleSize,
    presentationTimeUs |-> presentationTimeUs(c, sampleTime),
    flags |-> 1 ]

\* bufferInfo.size = sampleSize; bufferInfo.presentationTimeUs = ...;
\* bufferInfo.flags = extractor.getSampleFlags()
bufferInfo(c, sampleSize, sampleTime, sampleFlags) ==
  [ size |-> sampleSize,
    presentationTimeUs |-> presentationTimeUs(c, sampleTime),
    flags |-> sampleFlags ]

\* a copyTrack that hands back the offset it was given
copyTrackReturn_sameOffset(c) == c.offsetUs

\* return maxPresentationTimeUs
copyTrackReturn(c) == c.maxPresentationTimeUs

\* a muxer that drops a sample whose time repeats the previous one
writeSampleData_skipsRepeat(W, t, pts) ==
  IF pts = W[t].last
    THEN W
    ELSE [W EXCEPT ![t] = [n |-> @.n + 1, last |-> pts,
                           max |-> IF pts > @.max THEN pts ELSE @.max]]

\* muxer.writeSampleData(muxerTrackIndex, buffer, bufferInfo)
writeSampleData(W, t, pts) ==
  [W EXCEPT ![t] = [n |-> @.n + 1, last |-> pts,
                    max |-> IF pts > @.max THEN pts ELSE @.max]]

\* the locals of VideoMerger.merge before the loop, and an untouched muxer
MergeLocals ==
  /\ fileIndex = 0
  /\ videoTrackIndex = -1
  /\ audioTrackIndex = -1
  /\ muxerStarted = FALSE
  /\ videoPresentationTimeUs = 0
  /\ audioPresentationTimeUs = 0
  /\ extractor = {}
  /\ copy = NoCopy
  /\ written = [t \in Tracks |-> [n |-> 0, last |-> -1, max |-> 0]]
  /\ before = [t \in Tracks |-> 0]
  /\ lastWrite = NoWrite

\* mergeVideos has not been called
MergeIdle ==
  /\ inputLength = 0
  /\ outputFile = "none"
  /\ promise = "none"
  /\ mpc = "idle"
  /\ MergeLocals

\* the TelemetryLogger as constructed; the native module is not monitoring
TelemetryIdle ==
  /\ sessionId = 0
  /\ isMonitoring = FALSE
  /\ metricsBuffer = <<>>
  /\ eventSubscription = 0
  /\ logFilePath = 0
  /\ reportFilePath = 0
  /\ latencyStartTime = 0
  /\ latencyMetrics = "null"
  /\ nativeMonitoring = FALSE
  /\ nativeStarts = 0
  /\ listeners = {}
  /\ subsMade = 0
  /\ emitted = 0
  /\ calls = <<>>
  /\ callsMade = 0
  /\ lastCall = "none"

\* ----------------------------------------------------------------- Init
AppInit ==
  /\ enableTelemetry \in BOOLEAN
  /\ bufferMode = FALSE
  /\ isBuffering = FALSE
  /\ isCapturing = FALSE
  /\ isMerging = FALSE
  /\ segmentQueue = <<>>
  /\ preBufferDuration = DefaultPreBuffer
  /\ telemetryActive = FALSE
  /\ segmentRecordingRef = FALSE
  /\ isBufferingRef = FALSE
  /\ isCapturingRef = FALSE
  /\ preBufferDurationRef = DefaultPreBuffer
  /\ effQueue = <<>>
  /\ recs = <<>>
  /\ rsPending = 0
  /\ segTimers = 0
  /\ retryTimers = 0
  /\ stopTasks = <<>>
  /\ sess = [s \in Sessions |-> IdleSession]
  /\ exists = {}
  /\ nextFile = 1
  /\ unlinkFailed = {}
  /\ events = 0
  /\ pushLog = <<>>
  /\ pushFixed = TRUE
  /\ triggerBusy = FALSE
  /\ callTick = FALSE
  /\ unlinkedAgain = FALSE
  /\ afterReset = FALSE

\* the application after construction; no merge has been requested
Init == AppInit /\ MergeIdle /\ TelemetryIdle

\* mergeVideos(inputPaths, outputPath, promise) has been called with a list
\* of 0..MaxSegs paths; the application is left as constructed
InitMerge ==
  /\ AppInit
  /\ ~enableTelemetry
  /\ inputLength \in 0..MaxSegs
  /\ outputFile = "none"
  /\ promise = "pending"
  /\ mpc = "called"
  /\ MergeLocals
  /\ TelemetryIdle

\* -------------------------------------------------------------- actions
Step(S) == WithinBounds(S) /\ Becomes(S) /\ UNCHANGED << mergeVars, telVars >>

\* the user flips the Circular Buffer Mode switch
ToggleBufferMode ==
  /\ ~isCapturing
  /\ \E F \in UnlinkChoices : Step(setBufferMode(Cur, ~bufferMode, F))

\* the user picks or types another pre-buffer duration
ChangePreBufferDuration ==
  /\ bufferMode
  /\ \E value \in Durations \ {preBufferDuration} :
       Step(setPreBufferDuration(Cur, value))

\* the user taps the header
Reset ==
  \E F \in UnlinkChoices : Step(resetApp(Cur, F))

\* a suspended recordSegment resumes and begins its segment
RecordSegmentBegins ==
  /\ rsPending > 0
  /\ Step(recordSegmentBegin(Cur, FALSE))

\* a suspended recordSegment resumes and startRecording throws
RecordSegmentThrows ==
  /\ rsPending > 0
  /\ Step(recordSegmentBegin(Cur, TRUE))

\* a 3 s stop timer fires
SegmentTimerFires ==
  /\ segTimers > 0
  /\ \E i \in 0..Len(recs) :
       /\ IF i = 0
            THEN segTimers > Cardinality({j \in DOMAIN recs : recs[j].timer})
            ELSE recs[i].timer
       /\ Step(segmentStopTimer(Cur, i))

\* the recorder delivers onRecordingFinished of a buffering segment
SegmentFinished ==
  \E i \in DOMAIN recs, F \in UnlinkChoices :
    /\ recs[i].kind = "seg"
    /\ recs[i].stopping
    /\ nextFile <= MaxFiles
    /\ Step(onSegmentFinished(
              [Cur EXCEPT !.recs = RemoveAt(@, i), !.nextFile = @ + 1,
                          !.exists = @ \cup {nextFile}],
              nextFile, F))

\* the recorder delivers onRecordingError of a buffering segment
SegmentError ==
  \E i \in DOMAIN recs :
    /\ recs[i].kind = "seg"
    /\ Step(onSegmentError([Cur EXCEPT !.recs = RemoveAt(@, i), !.events = @ + 1]))

\* a 1 s retry timer fires
RetryTimerFires ==
  /\ retryTimers > 0
  /\ Step(recordSegment([Cur EXCEPT !.retryTimers = @ - 1]))

\* a suspended stopContinuousBuffering resumes
StopBufferingResumes ==
  \E i \in DOMAIN stopTasks, F \in UnlinkChoices :
    Step(stopContinuousBufferingEnd(
           [Cur EXCEPT !.stopTasks = RemoveAt(@, i)], stopTasks[i], F))

\* the user presses the Capture button
PressCapture ==
  /\ bufferMode
  /\ ~captureDisabled
  /\ FreeSlots # {}
  /\ \E thr \in BOOLEAN, F \in UnlinkChoices :
       Step(handleCircularCapture(AtTrigger, FreeSlot, thr, F))

\* handleCircularCapture is called while the button is hidden or disabled
CallCapture ==
  /\ ~bufferMode \/ captureDisabled
  /\ FreeSlots # {}
  /\ \E thr \in BOOLEAN, F \in UnlinkChoices :
       Step(handleCircularCapture(AtDirectCall, FreeSlot, thr, F))

\* TelemetryLogger.start has settled
TelemetryStarted ==
  \E s \in Sessions, thr \in BOOLEAN, F \in UnlinkChoices :
    /\ sess[s].pc = "telemetry"
    /\ Step(captureAfterTelemetry(Cur, s, thr, F))

\* the await of the early stop is over
EarlyStopDone ==
  \E s \in Sessions, thr \in BOOLEAN, F \in UnlinkChoices :
    /\ sess[s].pc = "earlystop"
    /\ Step(captureAfterEarlyStop(Cur, s, thr, F))

\* the post-buffer stop timer fires
PostTimerFires ==
  \E s \in Sessions, F \in UnlinkChoices :
    /\ sess[s].pc = "post"
    /\ sess[s].ptimer
    /\ Step(IF recs = <<>>
              THEN captureMerge(Cur, s, <<>>, F)
              ELSE [stopRecording(Cur) EXCEPT !.sess[s].ptimer = FALSE])

\* the recorder delivers onRecordingFinished of a post-buffer recording
PostFinished ==
  \E i \in DOMAIN recs, F \in UnlinkChoices :
    /\ recs[i].kind = "post"
    /\ recs[i].stopping
    /\ nextFile <= MaxFiles
    /\ Step(captureMerge(
              [Cur EXCEPT !.recs = RemoveAt(@, i), !.nextFile = @ + 1,
                          !.exists = @ \cup {nextFile}],
              recs[i].sid, <<nextFile>>, F))

\* the recorder delivers onRecordingError of a post-buffer recording
PostError ==
  \E i \in DOMAIN recs, F \in UnlinkChoices :
    /\ recs[i].kind = "post"
    /\ Step(captureMerge(
              [Cur EXCEPT !.recs = RemoveAt(@, i), !.events = @ + 1,
                          !.sess[recs[i].sid].err = TRUE],
              recs[i].sid, <<>>, F))

\* VideoMerger.mergeVideos settles; it cannot succeed on a missing file
MergeReturns ==
  \E s \in Sessions, ok \in BOOLEAN, F \in UnlinkChoices :
    /\ sess[s].pc = "merging"
    /\ ok => Range(sess[s].pre \o sess[s].post) \subseteq exists
    /\ Step(captureFinish(mergeAndSaveSegmentsEnd(Cur, s, ok), s, F))

Loop ==
  \/ RecordSegmentBegins \/ RecordSegmentThrows \/ SegmentTimerFires
  \/ SegmentFinished \/ SegmentError \/ RetryTimerFires
  \/ StopBufferingResumes

User ==
  \/ ToggleBufferMode \/ ChangePreBufferDuration \/ Reset

Capture ==
  \/ TelemetryStarted \/ EarlyStopDone \/ PostTimerFires
  \/ PostFinished \/ PostError \/ MergeReturns

\* the application as the user drives it
Next == Loop \/ User \/ PressCapture \/ Capture

Spec == Init /\ [][Next]_vars

\* the application with handleCircularCapture called directly
NextApi == Next \/ CallCapture

SpecApi == Init /\ [][NextApi]_vars

\* the application on an event loop that runs every continuation whose
\* promise has settled and every timer that is due; nothing is assumed of
\* the user or of the recorder's callbacks
Continuations ==
  \/ RecordSegmentBegins \/ RecordSegmentThrows \/ SegmentTimerFires
  \/ RetryTimerFires \/ StopBufferingResumes \/ TelemetryStarted
  \/ EarlyStopDone \/ PostTimerFires \/ MergeReturns

SpecLive == Init /\ [][Next]_vars /\ WF_vars(Continuations)

\* the same event loop when nothing is assumed of the telemetry module
\* either: TelemetryLogger.start may settle late or never
ContinuationsButTelemetry ==
  \/ RecordSegmentBegins \/ RecordSegmentThrows \/ SegmentTimerFires
  \/ RetryTimerFires \/ StopBufferingResumes
  \/ EarlyStopDone \/ PostTimerFires \/ MergeReturns

SpecLiveNoTelemetry ==
  Init /\ [][Next]_vars /\ WF_vars(ContinuationsButTelemetry)

\* ------------------------------------------------ actions of the merge
\* a catch block that resolves the promise
Rejected_resolves ==
  /\ promise' = "resolved"
  /\ mpc' = "done"
  /\ UNCHANGED << inputLength, outputFile, fileIndex, videoTrackIndex,
                  audioTrackIndex, muxerStarted, videoPresentationTimeUs,
                  audioPresentationTimeUs, extractor, copy, written, before,
                  lastWrite >>

\* an exception leaves VideoMerger.merge; mergeVideos catches it and rejects
\* the promise.  Nothing closes the muxer or removes the file.
Rejected ==
  /\ promise' = "rejected"
  /\ mpc' = "done"
  /\ UNCHANGED << inputLength, outputFile, fileIndex, videoTrackIndex,
                  audioTrackIndex, muxerStarted, videoPresentationTimeUs,
                  audioPresentationTimeUs, extractor, copy, written, before,
                  lastWrite >>

\* after the copy of track type t of the open file: the audio track follows
\* the video track, the next file follows the audio track
Advance(t) ==
  IF t = "video"
    THEN /\ mpc' = "audio"
         /\ UNCHANGED << fileIndex, extractor >>
    ELSE /\ mpc' = "loop"
         /\ fileIndex' = fileIndex + 1
         /\ extractor' = {}

\* new MediaMuxer(outputPath, ...) creates the output file
MergeBegin ==
  /\ mpc = "called"
  /\ outputFile' = "partial"
  /\ mpc' = "loop"
  /\ UNCHANGED << inputLength, promise, fileIndex, videoTrackIndex,
                  audioTrackIndex, muxerStarted, videoPresentationTimeUs,
                  audioPresentationTimeUs, extractor, copy, written, before,
                  lastWrite >>
  /\ UNCHANGED << appVars, telVars >>

\* new MediaMuxer throws IOException: the output path cannot be written
MergeBeginFails ==
  /\ mpc = "called"
  /\ Rejected
  /\ UNCHANGED << appVars, telVars >>

\* a loop that adds to the output a track type it meets in a later file
OpenFile_addsTracks ==
  /\ mpc = "loop"
  /\ fileIndex < inputLength
  /\ \E D \in TrackSets :
       /\ extractor' = D
       /\ videoTrackIndex' =
            IF videoTrackIndex >= 0 THEN videoTrackIndex
            ELSE IF "video" \in D
                   THEN (IF audioTrackIndex >= 0 THEN 1 ELSE 0)
                   ELSE -1
       /\ audioTrackIndex' =
            IF audioTrackIndex >= 0 THEN audioTrackIndex
            ELSE IF "audio" \in D
                   THEN (IF videoTrackIndex >= 0 \/ "video" \in D THEN 1 ELSE 0)
                   ELSE -1
       /\ muxerStarted' = TRUE
  /\ before' = [t \in Tracks |-> written[t].max]
  /\ mpc' = "video"
  /\ UNCHANGED << inputLength, outputFile, promise, fileIndex,
                  videoPresentationTimeUs, audioPresentationTimeUs, copy,
                  written, lastWrite >>
  /\ UNCHANGED << appVars, telVars >>

\* the head of the loop: the extractor opens the next file; the first file
\* decides the tracks of the output and starts the muxer
OpenFile ==
  /\ mpc = "loop"
  /\ fileIndex < inputLength
  /\ \E D \in TrackSets :
       /\ extractor' = D
       /\ IF ~muxerStarted
            THEN /\ videoTrackIndex' = IF "video" \in D THEN 0 ELSE -1
                 /\ audioTrackIndex' =
                      IF "audio" \in D
                        THEN (IF "video" \in D THEN 1 ELSE 0)
                        ELSE -1
                 /\ muxerStarted' = TRUE
            ELSE UNCHANGED << videoTrackIndex, audioTrackIndex, muxerStarted >>
  /\ before' = [t \in Tracks |-> written[t].max]
  /\ mpc' = "video"
  /\ UNCHANGED << inputLength, outputFile, promise, fileIndex,
                  videoPresentationTimeUs, audioPresentationTimeUs, copy,
                  written, lastWrite >>
  /\ UNCHANGED << appVars, telVars >>

\* extractor.setDataSource throws IOException: the file cannot be opened
OpenFileFails ==
  /\ mpc = "loop"
  /\ fileIndex < inputLength
  /\ Rejected
  /\ UNCHANGED << appVars, telVars >>

\* a copyTrack that throws when the file lacks the track
BeginTrack_throwsOnMissing ==
  /\ mpc \in Tracks
  /\ IF trackIndex(mpc) >= 0 /\ mpc \in extractor
       THEN /\ copy' = [ mime |-> mpc, offsetUs |-> offsetOf(mpc),
                         maxPresentationTimeUs |-> offsetOf(mpc),
                         sampleTime |-> 0, sampleSize |-> 0,
                         sampleFlags |-> 0, n |-> 0 ]
            /\ mpc' = "copy"
            /\ promise' = promise
            /\ UNCHANGED << fileIndex, extractor >>
       ELSE IF trackIndex(mpc) >= 0
              THEN /\ promise' = "rejected"
                   /\ mpc' = "done"
                   /\ UNCHANGED << fileIndex, extractor, copy >>
              ELSE /\ Advance(mpc)
                   /\ promise' = promise
                   /\ UNCHANGED copy
  /\ UNCHANGED << inputLength, outputFile, videoTrackIndex,
                  audioTrackIndex, muxerStarted, videoPresentationTimeUs,
                  audioPresentationTimeUs, written, before, lastWrite >>
  /\ UNCHANGED << appVars, telVars >>

\* if (trackIndex >= 0) offset = copyTrack(...), up to the sample loop; a
\* track the output does not have, or the file does not have, is skipped
\* and the offset stays
BeginTrack ==
  /\ mpc \in Tracks
  /\ IF trackIndex(mpc) >= 0 /\ mpc \in extractor
       THEN /\ copy' = [ mime |-> mpc, offsetUs |-> offsetOf(mpc),
                         maxPresentationTimeUs |-> offsetOf(mpc),
                         sampleTime |-> 0, sampleSize |-> 0,
                         sampleFlags |-> 0, n |-> 0 ]
            /\ mpc' = "copy"
            /\ UNCHANGED << fileIndex, extractor >>
       ELSE /\ Advance(mpc)
            /\ UNCHANGED copy
  /\ UNCHANGED << inputLength, outputFile, promise, videoTrackIndex,
                  audioTrackIndex, muxerStarted, videoPresentationTimeUs,
                  audioPresentationTimeUs, written, before, lastWrite >>
  /\ UNCHANGED << appVars, telVars >>

\* one turn of the sample loop: the extractor delivers a sample whose time
\* is not before the previous one, the muxer writes it shifted by the offset
CopySample ==
  /\ mpc = "copy"
  /\ copy.n < MaxSamples
  /\ \E sampleTime \in copy.sampleTime..MaxTime, sample \in Samples :
       LET sampleSize == sample.size
           sampleFlags == sample.flags
           info == bufferInfo(copy, sampleSize, sampleTime, sampleFlags)
           pts == info.presentationTimeUs
       IN /\ copy' = [copy EXCEPT
                        !.maxPresentationTimeUs = maxPresentationTimeUs(copy, pts),
                        !.sampleTime = sampleTime,
                        !.sampleSize = sampleSize,
                        !.sampleFlags = sampleFlags,
                        !.n = @ + 1]
          /\ written' = writeSampleData(written, copy.mime, pts)
          /\ lastWrite' = [ track |-> copy.mime, file |-> fileIndex,
                            sampleTime |-> sampleTime,
                            presentationTimeUs |-> pts,
                            size |-> info.size, flags |-> info.flags ]
  /\ UNCHANGED << inputLength, outputFile, promise, mpc, fileIndex,
                  videoTrackIndex, audioTrackIndex, muxerStarted,
                  videoPresentationTimeUs, audioPresentationTimeUs, extractor,
                  before >>
  /\ UNCHANGED << appVars, telVars >>

\* readSampleData or writeSampleData throws
CopySampleFails ==
  /\ mpc = "copy"
  /\ Rejected
  /\ UNCHANGED << appVars, telVars >>

\* readSampleData returns a negative size: copyTrack returns and merge
\* stores the result as the offset of the track
EndTrack ==
  /\ mpc = "copy"
  /\ copy.n >= 1
  /\ IF copy.mime = "video"
       THEN /\ videoPresentationTimeUs' = copyTrackReturn(copy)
            /\ UNCHANGED audioPresentationTimeUs
       ELSE /\ audioPresentationTimeUs' = copyTrackReturn(copy)
            /\ UNCHANGED videoPresentationTimeUs
  /\ copy' = NoCopy
  /\ Advance(copy.mime)
  /\ UNCHANGED << inputLength, outputFile, promise, videoTrackIndex,
                  audioTrackIndex, muxerStarted, written, before, lastWrite >>
  /\ UNCHANGED << appVars, telVars >>

\* a merge that finalizes the output as soon as the muxer has been started
MergeStop_early ==
  /\ mpc = "loop"
  /\ muxerStarted
  /\ outputFile' = "finalized"
  /\ mpc' = "returned"
  /\ UNCHANGED << inputLength, promise, fileIndex, videoTrackIndex,
                  audioTrackIndex, muxerStarted, videoPresentationTimeUs,
                  audioPresentationTimeUs, extractor, copy, written, before,
                  lastWrite >>
  /\ UNCHANGED << appVars, telVars >>

\* muxer.stop() and release() after the last file; VideoMerger.merge returns
MergeStop ==
  /\ mpc = "loop"
  /\ fileIndex = inputLength
  /\ muxerStarted
  /\ outputFile' = "finalized"
  /\ mpc' = "returned"
  /\ UNCHANGED << inputLength, promise, fileIndex, videoTrackIndex,
                  audioTrackIndex, muxerStarted, videoPresentationTimeUs,
                  audioPresentationTimeUs, extractor, copy, written, before,
                  lastWrite >>
  /\ UNCHANGED << appVars, telVars >>

\* muxer.stop() on a muxer that was never started throws
\* IllegalStateException
MergeStopFails ==
  /\ mpc = "loop"
  /\ fileIndex = inputLength
  /\ ~muxerStarted
  /\ Rejected
  /\ UNCHANGED << appVars, telVars >>

\* promise.resolve(outputPath) after VideoMerger.merge has returned
Resolve ==
  /\ mpc = "returned"
  /\ promise' = "resolved"
  /\ mpc' = "done"
  /\ UNCHANGED << inputLength, outputFile, fileIndex, videoTrackIndex,
                  audioTrackIndex, muxerStarted, videoPresentationTimeUs,
                  audioPresentationTimeUs, extractor, copy, written, before,
                  lastWrite >>
  /\ UNCHANGED << appVars, telVars >>

NextMerge ==
  \/ MergeBegin \/ MergeBeginFails \/ OpenFile \/ OpenFileFails
  \/ BeginTrack \/ CopySample \/ CopySampleFails \/ EndTrack
  \/ MergeStop \/ MergeStopFails \/ Resolve

\* one call of the native merge, from mergeVideos to the settled promise
SpecMerge == InitMerge /\ [][NextMerge]_vars

\* the sample loop on segments whose tracks start at time 0 and whose sample
\* times increase strictly
CopySampleStrict ==
  /\ CopySample
  /\ IF copy.n = 0
       THEN copy'.sampleTime = 0
       ELSE copy'.sampleTime > copy.sampleTime

NextMergeStrict ==
  \/ MergeBegin \/ MergeBeginFails \/ OpenFile \/ OpenFileFails
  \/ BeginTrack \/ CopySampleStrict \/ CopySampleFails \/ EndTrack
  \/ MergeStop \/ MergeStopFails \/ Resolve

\* one call of the native merge on such segments
SpecMergeStrict == InitMerge /\ [][NextMergeStrict]_vars

\* ------------------------------------- the merge as a session calls it
\* A release build in which a trigger has reached mergeAndSaveSegments with
\* a Window of one segment and one post-buffer segment: buffer mode was
\* switched on, segment 1 was recorded, the pre-buffer duration was set to
\* 3 s, Capture was pressed, the segment begun during the early stop was
\* discarded as file 2 and the post-buffer was delivered as file 3.  The
\* native call is about to be made with the two paths.
AppAtMergeCall ==
  /\ enableTelemetry = FALSE
  /\ bufferMode = TRUE
  /\ isBuffering = FALSE
  /\ isCapturing = TRUE
  /\ isMerging = TRUE
  /\ segmentQueue = <<1>>
  /\ preBufferDuration = SegmentSeconds
  /\ telemetryActive = FALSE
  /\ segmentRecordingRef = FALSE
  /\ isBufferingRef = FALSE
  /\ isCapturingRef = TRUE
  /\ preBufferDurationRef = SegmentSeconds
  /\ effQueue = <<>>
  /\ recs = <<>>
  /\ rsPending = 0
  /\ segTimers = 0
  /\ retryTimers = 0
  /\ stopTasks = <<>>
  /\ sess = [s \in Sessions |->
               IF s = 1
                 THEN [IdleSession EXCEPT !.pc = "merging", !.cq = <<1>>,
                                          !.cbm = TRUE, !.pre = <<1>>,
                                          !.post = <<3>>,
                                          !.merged = << <<1, 3>> >>]
                 ELSE IdleSession]
  /\ exists = {1, 3}
  /\ nextFile = 4
  /\ unlinkFailed = {}
  /\ events = 2
  /\ pushLog = <<1>>
  /\ pushFixed = FALSE
  /\ triggerBusy = FALSE
  /\ callTick = TRUE
  /\ unlinkedAgain = FALSE
  /\ afterReset = FALSE

\* mergeVideos has been called with the list of that session
InitMergeCall ==
  /\ AppAtMergeCall
  /\ inputLength = Len(sess[1].pre \o sess[1].post)
  /\ outputFile = "none"
  /\ promise = "pending"
  /\ mpc = "called"
  /\ MergeLocals
  /\ TelemetryIdle

\* the await of VideoMerger.mergeVideos in mergeAndSaveSegments is over: the
\* session goes on with the promise as the native module settled it
MergeSettled ==
  \E s \in Sessions, F \in UnlinkChoices :
    /\ sess[s].pc = "merging"
    /\ promise \in {"resolved", "rejected"}
    /\ Step(captureFinish(
              mergeAndSaveSegmentsEnd(Cur, s, promise = "resolved"), s, F))

NextMergeCall ==
  \/ MergeBegin \/ MergeBeginFails \/ OpenFile \/ OpenFileFails
  \/ BeginTrack \/ CopySample \/ CopySampleFails \/ EndTrack
  \/ MergeStop \/ Resolve \/ MergeSettled

SpecMergeCall == InitMergeCall /\ [][NextMergeCall]_vars

\* ------------------------------------------------------ TelemetryLogger
\* The singleton of utils/TelemetryLogger and its native module. A call runs
\* up to its first await in the step that makes it; every await is a step of
\* its own, and the calls suspended at an await go on in any order.
SessionIds == 1..2

PutCall(c, i) == [calls EXCEPT ![i] = c]

\* what a call of start or stop leaves alone
LatencyStartAlone == UNCHANGED latencyStartTime

NativeAlone == UNCHANGED << nativeMonitoring, emitted >>

\* start(sessionId), up to await RNFS.exists(telemetryDir)
CallStart ==
  \E sid \in SessionIds :
    /\ callsMade < MaxCalls
    /\ callsMade' = callsMade + 1
    /\ lastCall' = "start"
    /\ IF isMonitoring
         THEN UNCHANGED << sessionId, isMonitoring, metricsBuffer,
                           latencyMetrics, calls >>
         ELSE /\ sessionId' = sid
              /\ isMonitoring' = TRUE
              /\ metricsBuffer' = <<>>
              /\ latencyMetrics' = "null"
              /\ calls' = Append(calls, [op |-> "start", pc |-> "exists"])
    /\ UNCHANGED << eventSubscription, logFilePath, reportFilePath,
                    nativeStarts, listeners, subsMade >>
    /\ LatencyStartAlone /\ NativeAlone
    /\ UNCHANGED << appVars, mergeVars >>

\* this.logFilePath = ..., this.reportFilePath = ..., then
\* TelemetryModule.startMonitoring() is called and awaited
StartSetPaths(i) ==
  \E timestamp \in 1..MaxStamp :
    /\ logFilePath' = timestamp
    /\ reportFilePath' = timestamp
    /\ nativeStarts' = nativeStarts + 1
    /\ calls' = PutCall([op |-> "start", pc |-> "startMonitoring"], i)

\* RNFS.exists has resolved
StartExists ==
  \E i \in DOMAIN calls, dirExists \in BOOLEAN :
    /\ calls[i] = [op |-> "start", pc |-> "exists"]
    /\ IF dirExists
         THEN StartSetPaths(i)
         ELSE /\ calls' = PutCall([op |-> "start", pc |-> "mkdir"], i)
              /\ UNCHANGED << logFilePath, reportFilePath, nativeStarts >>
    /\ UNCHANGED << sessionId, isMonitoring, metricsBuffer, eventSubscription,
                    latencyMetrics, listeners, subsMade, callsMade, lastCall >>
    /\ LatencyStartAlone /\ NativeAlone
    /\ UNCHANGED << appVars, mergeVars >>

\* RNFS.mkdir has resolved
StartMkdir ==
  \E i \in DOMAIN calls :
    /\ calls[i] = [op |-> "start", pc |-> "mkdir"]
    /\ StartSetPaths(i)
    /\ UNCHANGED << sessionId, isMonitoring, metricsBuffer, eventSubscription,
                    latencyMetrics, listeners, subsMade, callsMade, lastCall >>
    /\ LatencyStartAlone /\ NativeAlone
    /\ UNCHANGED << appVars, mergeVars >>

\* startMonitoring of TelemetryModule.kt has run and its promise has
\* resolved: start subscribes to the metrics events and returns
StartMonitoringResolved ==
  \E i \in DOMAIN calls :
    /\ calls[i] = [op |-> "start", pc |-> "startMonitoring"]
    /\ nativeMonitoring' = TRUE
    /\ subsMade' = subsMade + 1
    /\ eventSubscription' = subsMade + 1
    /\ listeners' = listeners \cup {subsMade + 1}
    /\ calls' = RemoveAt(calls, i)
    /\ UNCHANGED << sessionId, isMonitoring, metricsBuffer, logFilePath,
                    reportFilePath, latencyMetrics, nativeStarts, emitted,
                    callsMade, lastCall >>
    /\ LatencyStartAlone
    /\ UNCHANGED << appVars, mergeVars >>

\* the promise start awaits rejects: catch (error) { this.isMonitoring = false }
StartFails ==
  \E i \in DOMAIN calls :
    /\ calls[i].op = "start"
    /\ isMonitoring' = FALSE
    /\ calls' = RemoveAt(calls, i)
    /\ UNCHANGED << sessionId, metricsBuffer, eventSubscription, logFilePath,
                    reportFilePath, latencyMetrics, nativeStarts, listeners,
                    subsMade, callsMade, lastCall >>
    /\ LatencyStartAlone /\ NativeAlone
    /\ UNCHANGED << appVars, mergeVars >>

\* stop(), up to await TelemetryModule.stopMonitoring()
CallStop ==
  /\ callsMade < MaxCalls
  /\ callsMade' = callsMade + 1
  /\ lastCall' = "stop"
  /\ IF ~isMonitoring
       THEN UNCHANGED << isMonitoring, calls >>
       ELSE /\ isMonitoring' = FALSE
            /\ calls' = Append(calls, [op |-> "stop", pc |-> "stopMonitoring"])
  /\ UNCHANGED << sessionId, metricsBuffer, eventSubscription, logFilePath,
                  reportFilePath, latencyMetrics, nativeStarts, listeners,
                  subsMade >>
  /\ LatencyStartAlone /\ NativeAlone
  /\ UNCHANGED << appVars, mergeVars >>

\* stopMonitoring of TelemetryModule.kt has run and its promise has resolved:
\* stop removes this.eventSubscription and calls saveToFile
StopMonitoringResolved ==
  \E i \in DOMAIN calls :
    /\ calls[i] = [op |-> "stop", pc |-> "stopMonitoring"]
    /\ nativeMonitoring' = FALSE
    /\ IF eventSubscription # 0
         THEN /\ listeners' = listeners \ {eventSubscription}
              /\ eventSubscription' = 0
         ELSE UNCHANGED << listeners, eventSubscription >>
    /\ calls' = PutCall([op |-> "stop", pc |-> "saveToFile"], i)
    /\ UNCHANGED << sessionId, isMonitoring, metricsBuffer, logFilePath,
                    reportFilePath, latencyMetrics, nativeStarts, subsMade,
                    emitted, callsMade, lastCall >>
    /\ LatencyStartAlone
    /\ UNCHANGED << appVars, mergeVars >>

\* await this.saveToFile() is over; generateReport, then saveReport is awaited
StopSavedToFile ==
  \E i \in DOMAIN calls :
    /\ calls[i] = [op |-> "stop", pc |-> "saveToFile"]
    /\ calls' = PutCall([op |-> "stop", pc |-> "saveReport"], i)
    /\ UNCHANGED << sessionId, isMonitoring, metricsBuffer, eventSubscription,
                    logFilePath, reportFilePath, latencyMetrics, nativeStarts,
                    listeners, subsMade, callsMade, lastCall >>
    /\ LatencyStartAlone /\ NativeAlone
    /\ UNCHANGED << appVars, mergeVars >>

\* await this.saveReport(report) is over: stop returns
StopReturns ==
  \E i \in DOMAIN calls :
    /\ calls[i] = [op |-> "stop", pc |-> "saveReport"]
    /\ calls' = RemoveAt(calls, i)
    /\ UNCHANGED << sessionId, isMonitoring, metricsBuffer, eventSubscription,
                    logFilePath, reportFilePath, latencyMetrics, nativeStarts,
                    listeners, subsMade, callsMade, lastCall >>
    /\ LatencyStartAlone /\ NativeAlone
    /\ UNCHANGED << appVars, mergeVars >>

\* the timer of TelemetryModule.kt emits 'TelemetryMetrics'; every listener
\* runs handleMetricsUpdate: this.metricsBuffer.push(data)
handleMetricsUpdate ==
  /\ nativeMonitoring
  /\ emitted < MaxMetrics
  /\ emitted' = emitted + 1
  /\ metricsBuffer' =
       metricsBuffer \o [k \in 1..Cardinality(listeners) |-> emitted + 1]
  /\ UNCHANGED << sessionId, isMonitoring, eventSubscription, logFilePath,
                  reportFilePath, latencyStartTime, latencyMetrics,
                  nativeMonitoring, nativeStarts, listeners, subsMade, calls,
                  callsMade, lastCall >>
  /\ UNCHANGED << appVars, mergeVars >>

\* this.latencyStartTime = Date.now(); 1 stands for any time of the clock
recordLatencyStart ==
  /\ latencyStartTime = 0
  /\ latencyStartTime' = 1
  /\ UNCHANGED << sessionId, isMonitoring, metricsBuffer, eventSubscription,
                  logFilePath, reportFilePath, latencyMetrics,
                  nativeMonitoring, nativeStarts, listeners, subsMade, emitted,
                  calls, callsMade, lastCall >>
  /\ UNCHANGED << appVars, mergeVars >>

\* if (this.latencyStartTime === 0) return; this.latencyMetrics = {...}
recordLatencyCallback ==
  /\ latencyStartTime # 0
  /\ latencyMetrics = "null"
  /\ latencyMetrics' = "set"
  /\ UNCHANGED << sessionId, isMonitoring, metricsBuffer, eventSubscription,
                  logFilePath, reportFilePath, latencyStartTime,
                  nativeMonitoring, nativeStarts, listeners, subsMade, emitted,
                  calls, callsMade, lastCall >>
  /\ UNCHANGED << appVars, mergeVars >>

InitTelemetry == AppInit /\ enableTelemetry /\ MergeIdle /\ TelemetryIdle

NextTelemetry ==
  \/ CallStart \/ StartExists \/ StartMkdir \/ StartMonitoringResolved
  \/ StartFails
  \/ CallStop \/ StopMonitoringResolved \/ StopSavedToFile \/ StopReturns
  \/ handleMetricsUpdate \/ recordLatencyStart \/ recordLatencyCallback

SpecTelemetry == InitTelemetry /\ [][NextTelemetry]_vars

\* --------------------------------------------------------------- claims
ActiveSessions == {s \in Sessions : sess[s].pc \notin {"idle", "done"}}

\* the step in which the execution in slot s of handleCircularCapture ends
SessionEnds(s) ==
  /\ sess'[s].pc = "done"
  /\ sess[s].pc # "done" \/ callTick' # callTick

\* everything but the bookkeeping of the model
programVars ==
  << bufferMode, isBuffering, isCapturing, isMerging, segmentQueue,
     preBufferDuration, telemetryActive, segmentRecordingRef, isBufferingRef,
     isCapturingRef, preBufferDurationRef, effQueue, recs, rsPending,
     segTimers, retryTimers, stopTasks, sess, exists, nextFile >>

\* C1: while the pre-buffer target stays the same, the Window holds exactly
\* the last min(N, ceil(T/3)) of the N segments pushed since it was last
\* empty, in the order they were recorded.
C1_WindowHoldsLastSegments ==
  pushFixed =>
    segmentQueue =
      LastN(pushLog,
            Min(Len(pushLog), Ceil(preBufferDuration, SegmentSeconds)))

\* target 9 s: four pushes have left the last three segments
C1_Witness ==
  /\ pushFixed
  /\ preBufferDuration = 9
  /\ Len(pushLog) = 4
  /\ segmentQueue = SubSeq(pushLog, 2, 4)

\* C2: in every reachable state the Window holds at most
\* ceil(preBufferDuration / 3) segments, also after the duration was changed
\* while buffering runs.
C2_WindowWithinCap ==
  Len(segmentQueue) <= Ceil(preBufferDuration, SegmentSeconds)

\* C3: at most one execution of handleCircularCapture is between its guard
\* and its final state reset.
C3_AtMostOneSession == Cardinality(ActiveSessions) <= 1

\* C4: startRecording is never issued while an earlier recording has not
\* delivered its finished or error callback, i.e. at most one recording is
\* in flight.
C4_AtMostOneRecording == Len(recs) <= 1

C7_EndToEnd ==
  [][\A s \in Sessions :
       (SessionEnds(s) /\ Len(sess'[s].pre) = 3 /\ Len(sess'[s].post) = 1) =>
         LET pre == sess'[s].pre
             post == sess'[s].post
         IN /\ sess'[s].merged = << pre \o post >>
            /\ pre[1] < pre[2] /\ pre[2] < pre[3] /\ pre[3] < post[1]
            /\ (Range(pre \o post) \cap exists') \subseteq unlinkFailed'
            /\ isBuffering' /\ isBufferingRef'
            /\ ~isCapturing' /\ ~isCapturingRef' /\ ~isMerging']_vars

\* 3 + 1 segments were merged and saved, their files are deleted and
\* buffering runs again
C7_Witness ==
  \E s \in Sessions :
    /\ sess[s].pc = "done"
    /\ Len(sess[s].pre) = 3 /\ Len(sess[s].post) = 1
    /\ sess[s].outcome = "saved"
    /\ Range(sess[s].pre \o sess[s].post) \cap exists = {}
    /\ isBufferingRef /\ ~isCapturingRef

\* C8: whatever the merge did, once the session has ended every file of its
\* pre-buffer snapshot and of its post-buffer is deleted, except a file whose
\* deletion the file system rejected; the rejection does not keep the session
\* from ending with the outcome of its merge.
C8_CleanupAfterMerge ==
  \A s \in Sessions :
    sess[s].pc = "done" =>
      /\ (Range(sess[s].pre \o sess[s].post) \cap exists) \subseteq unlinkFailed
      /\ sess[s].outcome \in {"saved", "mergeError", "nothingToMerge"}

\* the merge was rejected, one deletion was rejected, the other files of the
\* session are gone
C8_Witness ==
  \E s \in Sessions :
    /\ sess[s].pc = "done"
    /\ sess[s].outcome = "mergeError"
    /\ Len(sess[s].pre \o sess[s].post) >= 2
    /\ Cardinality(Range(sess[s].pre \o sess[s].post) \cap exists) = 1

\* C9: when a session ends, buffering restarts exactly if buffer mode is
\* enabled at that moment.
C9_RestartFollowsBufferMode ==
  [][\A s \in Sessions :
       SessionEnds(s) =>
         /\ isBufferingRef' = bufferMode
         /\ isBuffering' = bufferMode]_vars

\* C10: after a failure of the post-buffer recording or of the merge while
\* the capturing or merging flag is set, a state with both flags cleared is
\* eventually reached.
SessionFailed ==
  /\ isCapturing \/ isMerging
  /\ \E s \in ActiveSessions : sess[s].err

C10_NeverStuckAfterError == SessionFailed ~> (~isCapturing /\ ~isMerging)

\* the post-buffer recording failed and the merge is running
C10_Witness ==
  /\ isCapturing /\ isMerging
  /\ \E s \in Sessions : sess[s].pc = "merging" /\ sess[s].err

\* the buffering-segment recordings among r
SegCount(r) == Cardinality({i \in DOMAIN r : r[i].kind = "seg"})

\* C11: a post-buffer recording whose finished and error callbacks are never
\* delivered does not keep the session in the Capturing phase for ever: the
\* session leaves the post-buffer wait and goes on to the merge.
C11_PostBufferWaitEnds ==
  \A s \in Sessions : (sess[s].pc = "post") ~> (sess[s].pc # "post")

\* C12: no buffering segment is begun while the buffering flag is cleared,
\* be it from a completion callback, from the retry timer or from a
\* recordSegment that was suspended when the flag was cleared.
C12_NoBeginWhileStopped ==
  [][SegCount(recs') > SegCount(recs) => isBufferingRef]_vars

\* C13: a buffering segment that completes while the state is Capturing is
\* discarded: the Window and every session's snapshot stay as they are, its
\* file is deleted (but for a deletion the file system rejected), and no
\* recordSegment, retry timer or recording is started by its completion.
\* A file enters the Window only in the step that completes it, and a
\* snapshot only from the Window, so a discarded file never enters either.
C13_LateSegmentDiscarded ==
  [][/\ (isCapturingRef /\ SegCount(recs') < SegCount(recs)) =>
          /\ segmentQueue' = segmentQueue
          /\ \A s \in Sessions :
               sess'[s].cq = sess[s].cq /\ sess'[s].pre = sess[s].pre
          /\ nextFile' # nextFile =>
               (nextFile \notin exists' \/ nextFile \in unlinkFailed')
          /\ rsPending' = rsPending
          /\ retryTimers' = retryTimers
          /\ Len(recs') < Len(recs)
     /\ \A f \in Range(segmentQueue') \ Range(segmentQueue) :
          f = nextFile /\ nextFile' = nextFile + 1
     /\ \A s \in Sessions :
          Range(sess'[s].cq) \cup Range(sess'[s].pre) \subseteq
            Range(sess[s].cq) \cup Range(sess[s].pre) \cup Range(segmentQueue)
    ]_vars

\* the early stop of a trigger made the segment finish; nothing failed, and
\* the file it produced is gone and in no queue or snapshot
C13_Witness ==
  /\ events = 1
  /\ isCapturingRef
  /\ ~segmentRecordingRef
  /\ recs = <<>>
  /\ nextFile > 1
  /\ (nextFile - 1) \notin exists \cup Range(segmentQueue)
  /\ \E s \in Sessions :
       /\ sess[s].pc = "earlystop"
       /\ sess[s].cq # <<>>
       /\ (nextFile - 1) \notin Range(sess[s].cq)

\* C14: the files of an active session's pre-buffer snapshot exist from the
\* snapshot until the merge has read them.
C14_SnapshotFilesExist ==
  \A s \in Sessions :
    sess[s].pc \in {"post", "merging"} => Range(sess[s].pre) \subseteq exists

\* C15: on every output track the presentation times are written in
\* non-decreasing order across the whole list of segments, whatever the
\* real lengths of the segments and however many there are.
C15_TimestampsNonDecreasing ==
  [][\A t \in Tracks :
       written'[t].n > written[t].n => written'[t].last >= written[t].last]_vars

\* two files were merged, the second one stands behind a first one of full
\* length, and the merge resolved
C15_Witness ==
  /\ promise = "resolved"
  /\ inputLength = 2
  /\ written["video"].n >= 3
  /\ before["video"] = MaxTime
  /\ written["video"].max > MaxTime

\* C16: between two files the running offset of a track is the largest
\* presentation time written on that track so far; every sample is written
\* with its own time plus the largest time the track had reached when its
\* file was opened, so the samples of a file keep their distances.
C16_OffsetIsMaxWritten ==
  [][/\ mpc' = "loop" =>
          /\ videoPresentationTimeUs' = written'["video"].max
          /\ audioPresentationTimeUs' = written'["audio"].max
     /\ lastWrite' # lastWrite =>
          /\ lastWrite'.presentationTimeUs =
               lastWrite'.sampleTime + before[lastWrite'.track]
          /\ (lastWrite.track = lastWrite'.track /\ lastWrite.file = lastWrite'.file) =>
               lastWrite'.presentationTimeUs - lastWrite.presentationTimeUs
                 = lastWrite'.sampleTime - lastWrite.sampleTime
    ]_vars

\* the first file spans 0..MaxTime; a sample of the second file with a time
\* of its own below MaxTime is written at that time plus MaxTime
C16_Witness ==
  /\ lastWrite.file = 1
  /\ lastWrite.track = "video"
  /\ before["video"] = MaxTime
  /\ copy.n = 2
  /\ lastWrite.sampleTime < MaxTime
  /\ lastWrite.presentationTimeUs = lastWrite.sampleTime + MaxTime

\* C17: in a merge of exactly one segment every sample the extractor
\* delivers is written, with the time it has in the segment.
C17_SingleSegmentIdentity ==
  [][(inputLength = 1 /\ mpc = "copy" /\ copy'.n = copy.n + 1) =>
       /\ written'[copy.mime].n = copy'.n
       /\ written'[copy.mime].last = copy'.sampleTime]_vars

\* one segment with two video samples and an audio sample was merged
C17_Witness ==
  /\ promise = "resolved"
  /\ outputFile = "finalized"
  /\ inputLength = 1
  /\ written["video"].n = 2
  /\ written["audio"].n = 1
  /\ written["video"].max = MaxTime

C19_PartialOutputDiscarded ==
  (mpc = "done" /\ muxerStarted /\ promise # "resolved") =>
    (promise = "rejected" /\ outputFile = "none")

\* C20: a buffering segment whose start fails while the state is Buffering
\* is retried after the backoff interval.
C20_StartFailureRetried ==
  [][(isBufferingRef /\ rsPending' < rsPending /\ Len(recs') = Len(recs)) =>
       retryTimers' > retryTimers]_vars

\* C21: a trigger goes on to Capturing whether or not TelemetryLogger.start
\* ever settles.
C21_TelemetryNeverBlocks ==
  \A s \in Sessions : (sess[s].pc = "telemetry") ~> (sess[s].pc # "telemetry")

\* C22: the promise of mergeVideos is settled once and never again; it is
\* resolved only once VideoMerger.merge has returned and rejected only when
\* merge has not returned; and the session that awaited it then deletes its
\* segment files, empties the Window and clears its flags, reporting a merge
\* error exactly when the promise was rejected.
C22_SettledOnceThenCleanup ==
  [][ /\ promise' # promise =>
           /\ promise = "pending"
           /\ mpc' = "done"
           /\ promise' = "resolved" =>
                (mpc = "returned" /\ outputFile = "finalized")
           /\ promise' = "rejected" =>
                (mpc # "returned" /\ outputFile # "finalized")
      /\ \A s \in Sessions :
           (sess[s].pc = "merging" /\ sess'[s].pc # "merging") =>
             /\ promise \in {"resolved", "rejected"}
             /\ promise' = promise
             /\ sess'[s].pc = "done"
             /\ (sess'[s].outcome = "mergeError") <=> (promise = "rejected")
             /\ (sess'[s].outcome = "saved") <=> (promise = "resolved")
             /\ Range(sess[s].pre \o sess[s].post) \cap exists'
                  \subseteq unlinkFailed'
             /\ segmentQueue' = <<>>
             /\ ~isCapturing' /\ ~isCapturingRef' /\ ~isMerging' ]_vars

C22_Witness ==
  /\ promise = "rejected"
  /\ muxerStarted
  /\ written["video"].n >= 1
  /\ sess[1].pc = "done"
  /\ sess[1].outcome = "mergeError"
  /\ Range(sess[1].pre \o sess[1].post) \cap exists = {}
  /\ ~isCapturing

\* the post-buffer recordings of session s that the recorder holds
PostCount(r, s) ==
  Cardinality({i \in DOMAIN r : r[i].kind = "post" /\ r[i].sid = s})

\* C23: the steps of a trigger come in order.  When the early stop is
\* requested the buffering flag is already cleared and the capturing flag
\* set, and neither the snapshot nor the post-buffer exists yet; a trigger
\* that finds a segment in flight always passes through the wait of the
\* early stop; the post-buffer recording begins only with the snapshot
\* taken; and the wait of the early stop ends whether or not the stopped
\* segment ever signals its completion (the recorder of the model holds at
\* most MaxRecs recordings, so a full recorder ends the obligation).
C23_TriggerOrder ==
  /\ [][ \A s \in Sessions :
           /\ (sess[s].pc # "earlystop" /\ sess'[s].pc = "earlystop") =>
                /\ ~isBufferingRef' /\ isCapturingRef' /\ isCapturing'
                /\ \A i \in DOMAIN recs' : recs'[i].stopping
                /\ sess'[s].pre = <<>>
                /\ PostCount(recs', s) = 0
           /\ (sess[s].pc \in {"idle", "done", "telemetry"}
                 /\ sess'[s].pc \in {"post", "merging"}) =>
                ~segmentRecordingRef
           /\ (sess[s].pc = "telemetry" /\ sess'[s].pc # "telemetry"
                 /\ segmentRecordingRef) =>
                sess'[s].pc = "earlystop"
           /\ (sess'[s].pre # sess[s].pre /\ sess'[s].pre # <<>>) =>
                /\ sess[s].pc = "earlystop" \/ ~segmentRecordingRef
                /\ sess'[s].pre = sess'[s].cq
           /\ PostCount(recs', s) > PostCount(recs, s) =>
                /\ sess[s].pc # "post"
                /\ sess'[s].pc = "post"
                /\ sess'[s].pre = sess'[s].cq ]_vars
  /\ \A s \in Sessions :
       (sess[s].pc = "earlystop")
         ~> (sess[s].pc # "earlystop" \/ Len(recs) >= MaxRecs)

C23_Witness ==
  \E s \in Sessions :
    /\ sess[s].pc = "post"
    /\ sess[s].pre # <<>>
    /\ PostCount(recs, s) = 1
    /\ SegCount(recs) = 1
    /\ \A i \in DOMAIN recs : recs[i].kind = "seg" => recs[i].stopping
    /\ ~segmentRecordingRef

\* C24: the in-flight marker is true exactly while the recorder holds a
\* buffering recording: it is cleared only when that recording's finished or
\* error callback has been delivered.
C24_MarkerTracksRecording ==
  segmentRecordingRef <=> SegCount(recs) > 0

\* C25: no unlink names a segment file that an earlier unlink has deleted.
C25_NoFileDeletedTwice == ~unlinkedAgain

\* C26: when the open segment lacks a track type the output has, the step
\* for that type writes no sample, leaves both running offsets as they are
\* and does not fail the merge; the audio type follows the video type in the
\* same segment, the next segment follows the audio type, and a type the
\* segment does have is copied whatever happened to the other one.
C26_MissingTrackSkipped ==
  [][ \A t \in Tracks :
        /\ (mpc = t /\ trackIndex(t) >= 0 /\ t \notin extractor) =>
             /\ written' = written
             /\ lastWrite' = lastWrite
             /\ videoPresentationTimeUs' = videoPresentationTimeUs
             /\ audioPresentationTimeUs' = audioPresentationTimeUs
             /\ promise' = promise
             /\ outputFile' = outputFile
             /\ IF t = "video"
                  THEN mpc' = "audio" /\ fileIndex' = fileIndex
                         /\ extractor' = extractor
                  ELSE mpc' = "loop" /\ fileIndex' = fileIndex + 1
        /\ (mpc = t /\ trackIndex(t) >= 0 /\ t \in extractor) =>
             (mpc' = "copy" /\ copy'.mime = t) ]_vars

\* the second segment has no video: its audio is being copied behind the
\* video of the first
C26_Witness ==
  /\ mpc = "copy"
  /\ copy.mime = "audio"
  /\ copy.n >= 1
  /\ fileIndex = 1
  /\ videoTrackIndex >= 0
  /\ "video" \notin extractor
  /\ written["video"].n >= 1
  /\ videoPresentationTimeUs = written["video"].max

\* C27: the tracks of the output are those of the first segment.  The muxer
\* is started at the first segment with one track per type that segment
\* holds, the track indexes never change afterwards, and a type without an
\* output track never has a sample written.
C27_TracksFromFirstSegment ==
  [][ /\ (~muxerStarted /\ muxerStarted') =>
           /\ fileIndex = 0
           /\ (videoTrackIndex' >= 0) <=> ("video" \in extractor')
           /\ (audioTrackIndex' >= 0) <=> ("audio" \in extractor')
           /\ (videoTrackIndex' >= 0 /\ audioTrackIndex' >= 0) =>
                videoTrackIndex' # audioTrackIndex'
      /\ muxerStarted =>
           /\ muxerStarted'
           /\ videoTrackIndex' = videoTrackIndex
           /\ audioTrackIndex' = audioTrackIndex
      /\ ~muxerStarted' => (videoTrackIndex' = -1 /\ audioTrackIndex' = -1)
      /\ videoTrackIndex' < 0 => written'["video"].n = 0
      /\ audioTrackIndex' < 0 => written'["audio"].n = 0 ]_vars

\* the first segment had video only; the second holds audio as well and its
\* video is being copied
C27_Witness ==
  /\ fileIndex = 1
  /\ extractor = Tracks
  /\ videoTrackIndex = 0
  /\ audioTrackIndex = -1
  /\ mpc = "copy"
  /\ copy.n >= 1
  /\ written["audio"].n = 0

\* C28: the muxer is written to only when the extractor has delivered a
\* sample, and then exactly once: the sample goes to the track being copied,
\* with the size and the flags the extractor gave and with the sample time
\* plus the running offset of that track; the other track is not touched.
C28_SamplesCopiedVerbatim ==
  [][ /\ (written' # written \/ lastWrite' # lastWrite) =>
           (mpc = "copy" /\ copy'.n = copy.n + 1)
      /\ (mpc = "copy" /\ copy'.n = copy.n + 1) =>
           /\ written'[copy.mime].n = written[copy.mime].n + 1
           /\ \A t \in Tracks \ {copy.mime} : written'[t] = written[t]
           /\ lastWrite'.track = copy.mime
           /\ lastWrite'.file = fileIndex
           /\ lastWrite'.sampleTime = copy'.sampleTime
           /\ lastWrite'.size = copy'.sampleSize
           /\ lastWrite'.flags = copy'.sampleFlags
           /\ lastWrite'.presentationTimeUs
                = copy'.sampleTime + offsetOf(copy.mime)
           /\ written'[copy.mime].last = lastWrite'.presentationTimeUs ]_vars

\* two segments of two samples per track have been merged; the last sample
\* was a small dependent audio sample of the second segment
C28_Witness ==
  /\ promise = "resolved"
  /\ inputLength = 2
  /\ written["video"].n = 2 * MaxSamples
  /\ written["audio"].n = 2 * MaxSamples
  /\ lastWrite.track = "audio"
  /\ lastWrite.file = 1
  /\ lastWrite.size = 1
  /\ lastWrite.flags = 0
  /\ lastWrite.presentationTimeUs > lastWrite.sampleTime

\* C29: the output is finalized only when the loop has gone through every
\* input segment, the promise is resolved only with the output finalized,
\* and a session reports the video as saved only with the promise resolved.
C29_FinalizedThenReported ==
  /\ outputFile = "finalized" =>
       /\ fileIndex = inputLength
       /\ mpc \in {"returned", "done"}
       /\ extractor = {}
       /\ copy = NoCopy
  /\ promise = "resolved" => outputFile = "finalized"
  /\ \A s \in Sessions : sess[s].outcome = "saved" => promise = "resolved"

C29_Witness ==
  /\ sess[1].outcome = "saved"
  /\ sess[1].pc = "done"
  /\ promise = "resolved"
  /\ outputFile = "finalized"
  /\ fileIndex = 2
  /\ written["video"].n >= 2

\* C30: the offset added to the audio samples of a segment equals the offset
\* added to its video samples: when a segment that holds both tracks has
\* been opened for an output that has both, the two running offsets agree.
C30_SameOffsetForBothTracks ==
  (mpc = "video" /\ videoTrackIndex >= 0 /\ audioTrackIndex >= 0
     /\ extractor = Tracks)
    => videoPresentationTimeUs = audioPresentationTimeUs

\* C31: on segments whose tracks start at 0 and increase strictly, every
\* sample written to an output track has a presentation time greater than
\* that of the sample written to the track before it.
C31_TimestampsStrictlyIncreasing ==
  [][ \A t \in Tracks :
        (written'[t].n > written[t].n /\ written[t].n > 0) =>
          written'[t].last > written[t].last ]_vars

\* buffer mode is on, the buffering flag is set and no capture is in progress
LoopWanted == bufferMode /\ isBufferingRef /\ ~isCapturingRef

\* C32: while the loop is wanted and the recorder holds no buffering
\* recording, one is eventually begun (or the loop stops being wanted).
C32_LoopNeverHalts ==
  (LoopWanted /\ SegCount(recs) = 0)
    ~> (SegCount(recs) > 0 \/ ~LoopWanted)

\* C33: a 3 s stop timer that fires stops no recording but the buffering
\* segment it was armed for.
C33_TimerStopsOwnSegmentOnly ==
  [][ segTimers' < segTimers =>
        \A i \in DOMAIN recs :
          (~recs[i].stopping /\ recs'[i].stopping) =>
            (recs[i].kind = "seg" /\ recs[i].timer /\ ~recs'[i].timer) ]_vars

\* nothing is recording, no capture runs and no callback, timer or suspended
\* call is pending
Quiescent ==
  /\ recs = <<>>
  /\ rsPending = 0
  /\ segTimers = 0
  /\ retryTimers = 0
  /\ stopTasks = <<>>
  /\ ActiveSessions = {}

\* C34: in a quiescent state every segment file on disk is held in the
\* Window, but for the files whose deletion the file system rejected.
C34_NoSegmentFileLeaked ==
  Quiescent => (exists \ unlinkFailed) \subseteq Range(segmentQueue)

\* C35: the buffering flag and the capturing flag are never both set, and the
\* merging flag is set only while the capturing flag is set.
C35_FlagsEncodeOneState ==
  /\ ~(isBufferingRef /\ isCapturingRef)
  /\ isMerging => (isCapturing /\ isCapturingRef)

\* C36: after resetApp, and until the switch is used again, the flags say
\* Idle as soon as no capture is running, and the Window is empty as soon as
\* nothing at all is pending.
C36_IdleAfterReset ==
  /\ (afterReset /\ ActiveSessions = {}) =>
       /\ ~bufferMode
       /\ ~isBuffering /\ ~isBufferingRef
       /\ ~isCapturing /\ ~isCapturingRef
       /\ ~isMerging
  /\ (afterReset /\ Quiescent) => segmentQueue = <<>>

\* the step in which the execution in slot s takes its snapshot
SnapshotTaken(s) ==
  /\ sess[s].pc \in {"idle", "done", "telemetry", "earlystop"}
  /\ sess'[s].pc \in {"post", "merging"}
     \/ (sess'[s].pc = "done" /\ sess[s].pc \in {"telemetry", "earlystop"})
     \/ (sess'[s].pc = "done" /\ callTick' # callTick /\ ~triggerBusy')

\* C37: when handleCircularCapture takes its snapshot, the snapshot holds
\* segments for at least the configured pre-buffer duration.
C37_SnapshotCoversPreBuffer ==
  [][ \A s \in Sessions :
        SnapshotTaken(s) =>
          Len(sess'[s].pre) * SegmentSeconds >= preBufferDuration ]_vars

\* C37, with the duration read when Capture is pressed: a press starts a
\* capture only if the Window then covers the configured pre-buffer
\* duration, and the snapshot that capture takes later is that Window.
C37_SnapshotCoversPreBufferAtPress ==
  [][ /\ (callTick' # callTick /\ ~triggerBusy') =>
           /\ Len(segmentQueue) * SegmentSeconds >= preBufferDuration
           /\ sess'[FreeSlot].cq = segmentQueue
      /\ \A s \in Sessions :
           /\ sess[s].pc \notin {"idle", "done"} => sess'[s].cq = sess[s].cq
           /\ SnapshotTaken(s) => sess'[s].pre = sess'[s].cq ]_vars

\* a snapshot of two segments was taken after the duration had been raised
\* beyond them
C37_Witness ==
  \E s \in Sessions :
    /\ sess[s].pc = "post"
    /\ sess[s].pre = sess[s].cq
    /\ Len(sess[s].pre) = 2
    /\ Len(sess[s].pre) * SegmentSeconds < preBufferDuration

\* C38: a call of TelemetryLogger.start made while monitoring is active is a
\* no-op: it leaves sessionId, metricsBuffer, the latency metrics and the
\* log and report file paths as they are, does not call the native
\* startMonitoring and adds no event listener; hence at most one subscription
\* to the metrics events exists at any time.
StartWhileMonitoring ==
  callsMade' = callsMade + 1 /\ lastCall' = "start" /\ isMonitoring

C38_StartNoOpFrame ==
  StartWhileMonitoring =>
    UNCHANGED << sessionId, metricsBuffer, latencyMetrics, logFilePath,
                 reportFilePath, nativeStarts, listeners, eventSubscription,
                 calls >>

====
